---- MODULE Spec2Model ----
(***************************************************************************)
(* Model of macos_sign_and_notarize.py: one run of main() as a sequential  *)
(* program whose steps are its subprocess invocations and the Python       *)
(* checks between them.  Every external tool answers with an exit code     *)
(* (and, for notarytool, a stderr marker and a stdout) chosen by the       *)
(* environment.  Spec is the whole run with every input; the              *)
(* specifications SpecCreateKeychain, SpecImageSize and SpecBundle are     *)
(* runs of main() that vary the input of one function (the keychain search *)
(* list, the measured blocks, the files left under dist/); SpecConcurrent  *)
(* interleaves several runs of main() on one machine; SpecGpgSign is a run *)
(* of main() of gpg_sign.py.                                               *)
(***************************************************************************)
EXTENDS Integers, Sequences, FiniteSets, TLC

\* ------------------------------------------------------------------ bounds
MaxBinaries == 2
MaxResources == 1
MaxIconUrls == 2
MaxExit == 2
MaxSearchList == 2
MaxBlocks == 4000
MaxRuns == 2
MaxArtifacts == 2

\* --------------------------------------------------------- retry policies
\* @stamina.retry(on=NotaryToolInternalServerError, attempts=3)
NotarytoolAttemptsFour == 3 + 1
NotarytoolAttemptsTwo == 3 - 1
NotarytoolAttempts == 3

\* @stamina.retry(on=subprocess.CalledProcessError, attempts=3)
CommandAttemptsTwo == 3 - 1
CommandAttemptsFour == 3 + 1
CommandAttempts == 3

ExitCodes == 0..MaxExit

\* ------------------------------------------------------------ text helpers
\* A line of text is a sequence of one-character strings; the stdout of a
\* tool is a sequence of lines (str.splitlines()).
RECURSIVE LStrip(_)
LStrip(s) == IF s # <<>> /\ Head(s) = " " THEN LStrip(Tail(s)) ELSE s

RECURSIVE RStrip(_)
RStrip(s) == IF s # <<>> /\ s[Len(s)] = " " THEN RStrip(SubSeq(s, 1, Len(s) - 1)) ELSE s

\* str.strip()
Strip(s) == RStrip(LStrip(s))

Quote == "\""

RECURSIVE LStripQuotes(_)
LStripQuotes(s) == IF s # <<>> /\ Head(s) = Quote THEN LStripQuotes(Tail(s)) ELSE s

RECURSIVE RStripQuotes(_)
RStripQuotes(s) ==
    IF s # <<>> /\ s[Len(s)] = Quote THEN RStripQuotes(SubSeq(s, 1, Len(s) - 1)) ELSE s

\* str.strip('"')
StripQuotesNot(s) == s
StripQuotes(s) == RStripQuotes(LStripQuotes(s))

\* str.startswith(prefix)
StartsWith(s, prefix) == Len(s) >= Len(prefix) /\ SubSeq(s, 1, Len(prefix)) = prefix

\* str.removeprefix(prefix)
RemovePrefix(s, prefix) == IF StartsWith(s, prefix) THEN SubSeq(s, Len(prefix) + 1, Len(s)) ELSE s

IdPrefix == <<"i", "d", ":", " ">>

\* Python None for the Optional[str] notarization_request
None == <<"None">>

\* The loop of notarize_bundle, were it to stop at the first matching line
RECURSIVE ParseRequestFirst(_, _)
ParseRequestFirst(lines, request) ==
    IF lines = <<>> THEN request
    ELSE IF StartsWith(Strip(Head(lines)), IdPrefix)
    THEN RemovePrefix(Strip(Head(lines)), IdPrefix)
    ELSE ParseRequestFirst(Tail(lines), request)

\* The loop of notarize_bundle over output.splitlines(): the request is the
\* value of the last line that, stripped, starts with "id: ".
RECURSIVE ParseRequest(_, _)
ParseRequest(lines, request) ==
    IF lines = <<>> THEN request
    ELSE ParseRequest(Tail(lines),
                      IF StartsWith(Strip(Head(lines)), IdPrefix)
                      THEN RemovePrefix(Strip(Head(lines)), IdPrefix)
                      ELSE request)

\* `if not notarization_request`: None and the empty string are falsy
RequestMissingNever(request) == FALSE
RequestMissing(request) == request = None \/ request = <<>>

\* ------------------------------------------------- outputs of notarytool
\* "nothing returned yet": no tool prints this
NoOutput == << <<"None">> >>

LineIdA == <<" ", " ", "i", "d", ":", " ", "a">>
LineIdB == <<"i", "d", ":", " ", "b", " ">>
LineIdBlank == <<"i", "d", ":", " ">>
LineAid == <<"a", "i", "d", ":", " ", "a">>
LineStatus == <<"s", ":", " ", "o", "k">>

SubmitOutputs ==
    { <<>>, <<LineStatus>>, <<LineIdBlank, LineAid>>,
      <<LineIdA, LineStatus>>, <<LineIdA, LineIdB>> }

\* ------------------------------------------------------------ call sites
\* Each subprocess invocation of the script is a call site, named after the
\* function that makes it and the command it runs.

\* run_command_with_merged_output(...) call sites
MergedSites ==
    { "create_keychain.create-keychain", "create_keychain.set-keychain-settings",
      "create_keychain.unlock-keychain", "create_keychain.list-keychains-s",
      "import_certificate.p12", "import_certificate.provisioning",
      "import_certificate.chain", "import_codesigning_certificate.find-identity",
      "setup.set-key-partition-list", "codesign_binary",
      "bundle.hdiutil-create", "bundle.attach", "setup_dmg_icon.SetFile-c",
      "setup_dmg_icon.SetFile-a", "bundle.detach", "bundle.hdiutil-resize",
      "bundle.hdiutil-convert", "bundle.codesign", "staple_bundle",
      "validate.stapler-validate", "validate.spctl", "validate.attach",
      "validate.codesign-verify", "validate.codesign-display", "validate.detach" }

\* run_notarytool(...) call sites
NotarySites ==
    { "import_notarization_credentials", "notarize_bundle.submit", "notarize_bundle.log" }

\* subprocess.run(..., check=True) call sites outside any retry decorator
CheckedSites ==
    { "create_keychain.list-keychains", "get_image_size.sw_vers", "get_image_size.du" }

\* delete_keychain() call sites: first statement of create_keychain, and
\* the finally clause of main
DeleteSites == { "create_keychain.delete_keychain", "main.finally" }

\* with attach_disk_image(...) bodies: an exception raised at these sites
\* first runs the finally clause of attach_disk_image (the detach)
IconBodySitesAfterDownload == { "setup_dmg_icon.SetFile-c", "setup_dmg_icon.SetFile-a" }
IconBodySites == { "setup_dmg_icon", "setup_dmg_icon.SetFile-c", "setup_dmg_icon.SetFile-a" }
ValidateBodySites == { "validate.codesign-verify", "validate.codesign-display" }
AttachSites == { "bundle.attach", "validate.attach" }
DetachSites == { "bundle.detach", "validate.detach" }

\* ------------------------------------------------------------------ state
VARIABLES
    pc,                    \* position of main(): a call site, a Python step, or "done"
    i,                     \* index of the `for binary in ...` loops
    args,                  \* sys.argv as seen by parse_args
    env,                   \* os.environ: the three secrets
    keychainExists,        \* a keychain file exists at keychain_path()
    mounted,               \* the disk image is attached at disk_image_mount_path()
    call,                  \* the current (or last) decorated call: site, attempts, status
    returned,              \* stdout returned by run_notarytool, per call site
    notarization_request,  \* local of notarize_bundle
    logRequest,            \* the identifier given to `notarytool log`
    exc,                   \* the exception in flight / caught by main
    rc,                    \* return value of main()
    invoked,               \* call sites whose command has been invoked in this run
    deleteCalls,           \* number of delete_keychain() invocations, per call site
    outputs,               \* names written by set_output
    succeeded,             \* <<call site, loop index>> of the commands that have exited 0
    searchList,            \* the user's keychain search list, kept by `security`
    search_path,           \* local of create_keychain
    files,                 \* dist/: the staging directory, the image and the temporary image
    files_before,          \* dist/ as create_notarization_bundle found it
    du_blocks,             \* 512-byte blocks `du -s` measures for the temporary image
    image_size,            \* what get_image_size returned (0: not called yet)
    run,                   \* concurrent runs of main(): position and keychain use of each
    keychainOwner,         \* per keychain path: the run whose create-keychain made the
                           \* keychain now there (0: no keychain)
    gpg                    \* a run of gpg_sign.py: position, inputs, commands run, result

vars ==
    << pc, i, args, env, keychainExists, mounted, call, returned,
       notarization_request, logRequest, exc, rc, invoked, deleteCalls, outputs,
       succeeded, searchList, search_path, files, files_before, du_blocks, image_size,
       run, keychainOwner, gpg >>

\* The variables of one run of main(), and those of concurrent runs
sequential ==
    << pc, i, args, env, keychainExists, mounted, call, returned,
       notarization_request, logRequest, exc, rc, invoked, deleteCalls, outputs,
       succeeded, searchList, search_path, files, files_before, du_blocks, image_size >>
concurrent == << run, keychainOwner >>

\* The variables of the keychain search list and of the files under dist/
keychainList == << searchList, search_path >>
disk == << files, files_before, du_blocks, image_size >>

NoExc == [type |-> "none", returncode |-> 0, site |-> "none", attempt |-> 0]
NoCall == [site |-> "none", results |-> <<>>, status |-> "none"]
NoReturn == 0 - 1

Exception(type, site) == [type |-> type, returncode |-> 1, site |-> site, attempt |-> 0]

\* subprocess.CalledProcessError carries the exit code of the command
CalledProcessError(code, site, attempt) ==
    [type |-> "CalledProcessError", returncode |-> code, site |-> site, attempt |-> attempt]

BoolSeqs(n) == UNION { [1..k -> BOOLEAN] : k \in 1..n }

\* Truthiness of os.getenv(name): unset (None) and "" are falsy
Truthy(value) == value \notin {"unset", ""}

\* base64.b64decode(value, validate=True) succeeds
Base64Valid(value) == value \in {"QQ=="}

\* Keychain paths: keychain_path(), and keychains a user's search list may
\* hold (file names may contain spaces and double quotes)
KeychainPath == <<"/", "k">>
LoginKeychain == <<"/", "l">>
SpacedKeychain == <<"/", "a", " ", "b", " ">>
QuotedKeychain == <<"/", "a", Quote, "b">>
KeychainPaths == { KeychainPath, LoginKeychain, SpacedKeychain, QuotedKeychain }
SearchLists == UNION { [1..n -> KeychainPaths] : n \in 0..MaxSearchList }

\* What a previous build may have left under dist/
CleanFiles == [stage |-> "absent", dmg |-> "absent", dmg_writable |-> "absent"]
FileStates ==
    [stage : {"absent", "stale"}, dmg : {"absent", "stale"}, dmg_writable : {"absent", "stale"}]

\* Command lines and environments
Arguments ==
    [ binaries : BoolSeqs(MaxBinaries),
      resources : BoolSeqs(MaxResources),
      dmg_icon_url : 0..MaxIconUrls,
      release : {"", "nightly"} ]
Environments ==
    [ MACOS_CERTIFICATE : {"unset", "!", "QQ=="},
      MACOS_CERTIFICATE_PASSPHRASE : {"unset", "", "pass"},
      MACOS_NOTARIZE_APP_PASSWORD : {"unset", "pw"} ]

\* Command lines that pass parse_args, and an environment with every secret
ValidArguments ==
    [ binaries : { [b \in 1..n |-> TRUE] : n \in 1..MaxBinaries },
      resources : { <<TRUE>> },
      dmg_icon_url : {0, 1},
      release : {"nightly"} ]
GoodEnvironment ==
    [ MACOS_CERTIFICATE |-> "QQ==", MACOS_CERTIFICATE_PASSPHRASE |-> "pass",
      MACOS_NOTARIZE_APP_PASSWORD |-> "pw" ]

\* Concurrent runs of main() on one machine.  keychain_path() does not
\* depend on the run: "This path is a constant"
Runs == 1..MaxRuns
PathOfPerRun(r) == Append(KeychainPath, ToString(r))
PathOf(r) == KeychainPath
NotStarted ==
    [pc |-> "create_keychain.delete_keychain", created |-> FALSE, interfered |-> FALSE,
     used |-> "none", failed |-> FALSE]

\* gpg_sign.py: the state in which its main() starts, given the kind of
\* each --artifact path, what is at dist/<release>, and whether CI is "true"
GpgStart(artifact, stage, ci) ==
    [pc |-> "main.parse_args", artifact |-> artifact, stage |-> stage, ci |-> ci,
     asc |-> "absent", commands |-> <<>>, printed |-> {}, outputs |-> {},
     rc |-> 0 - 1]

PathKinds == {"file", "directory", "absent"}
ArtifactLists == UNION { [1..n -> PathKinds] : n \in 1..MaxArtifacts }
GpgStarts ==
    { GpgStart(a, s, c) : a \in ArtifactLists, s \in PathKinds, c \in BOOLEAN }

\* The state in which main() starts, for given sets of inputs
StartOfMain(argSet, envSet, keychainStates, lists, fileStates, blocks) ==
    /\ pc = "parse_args"
    /\ i = 1
    /\ args \in argSet
    /\ env \in envSet
    /\ keychainExists \in keychainStates
    /\ mounted = FALSE
    /\ call = NoCall
    /\ returned = [s \in NotarySites |-> NoOutput]
    /\ notarization_request = None
    /\ logRequest = None
    /\ exc = NoExc
    /\ rc = NoReturn
    /\ invoked = {}
    /\ deleteCalls = [s \in DeleteSites |-> 0]
    /\ outputs = {}
    /\ succeeded = {}
    /\ searchList \in lists
    /\ search_path = <<>>
    /\ files \in fileStates
    /\ files_before = files
    /\ du_blocks \in blocks
    /\ image_size = 0
    /\ run = [r \in Runs |-> NotStarted]
    /\ keychainOwner = [path \in { PathOf(r) : r \in Runs } |-> 0]

Start(argSet, envSet, keychainStates, lists, fileStates, blocks) ==
    /\ StartOfMain(argSet, envSet, keychainStates, lists, fileStates, blocks)
    /\ gpg = GpgStart(<<"file">>, "absent", FALSE)

Init ==
    Start(Arguments, Environments, BOOLEAN, { <<LoginKeychain>> }, { CleanFiles },
          { MaxBlocks })

\* ----------------------------------------------------------- control flow
\* The number of iterations of the `for binary in args.binaries` loops
NumBinariesFirstOnly == Len(SubSeq(args.binaries, 1, 1))
NumBinaries == Len(args.binaries)

\* The checks of parse_args after argparse has run
ArgsValidIgnoringRelease ==
    /\ \A b \in 1..Len(args.binaries) : args.binaries[b]
    /\ \A r \in 1..Len(args.resources) : args.resources[r]
    /\ ~(args.dmg_icon_url > 1)
ArgsValid ==
    /\ \A b \in 1..Len(args.binaries) : args.binaries[b]
    /\ \A r \in 1..Len(args.resources) : args.resources[r]
    /\ ~(args.dmg_icon_url > 1)
    /\ args.release # ""

\* Where main goes when an except clause or the else clause returns: its
\* finally clause
ExceptExitSkippingFinally == "done"
ExceptExit == "main.finally"
ElseExitSkippingFinally == "done"
ElseExit == "main.finally"

\* The statement that follows call site or step p when p completes normally
After(p) ==
    CASE p = "parse_args" -> "create_keychain.delete_keychain"
      [] p = "create_keychain.delete_keychain" -> "create_keychain.create-keychain"
      [] p = "create_keychain.create-keychain" -> "create_keychain.set-keychain-settings"
      [] p = "create_keychain.set-keychain-settings" -> "create_keychain.unlock-keychain"
      [] p = "create_keychain.unlock-keychain" -> "create_keychain.list-keychains"
      [] p = "create_keychain.list-keychains" -> "create_keychain.list-keychains-s"
      [] p = "create_keychain.list-keychains-s" -> "notarization_app_specific_password"
      [] p = "notarization_app_specific_password" -> "import_notarization_credentials"
      [] p = "import_notarization_credentials" -> "import_codesigning_certificate"
      [] p = "import_codesigning_certificate" -> "import_certificate.p12"
      [] p = "import_certificate.p12" -> "import_certificate.provisioning"
      [] p = "import_certificate.provisioning" -> "import_certificate.chain"
      [] p = "import_certificate.chain" -> "import_codesigning_certificate.find-identity"
      [] p = "import_codesigning_certificate.find-identity" -> "setup.set-key-partition-list"
      [] p = "setup.set-key-partition-list" -> "codesign_binary"
      [] p = "codesign_binary" ->
            IF i < NumBinaries THEN "codesign_binary" ELSE "bundle.stage"
      [] p = "bundle.stage" -> "bundle.hdiutil-create"
      [] p = "bundle.hdiutil-create" ->
            IF args.dmg_icon_url > 0 THEN "bundle.attach" ELSE "get_image_size.sw_vers"
      [] p = "bundle.attach" -> "setup_dmg_icon"
      [] p = "setup_dmg_icon" -> "setup_dmg_icon.SetFile-c"
      [] p = "setup_dmg_icon.SetFile-c" -> "setup_dmg_icon.SetFile-a"
      [] p = "setup_dmg_icon.SetFile-a" -> "bundle.detach"
      [] p = "bundle.detach" -> "get_image_size.sw_vers"
      [] p = "get_image_size.sw_vers" -> "get_image_size.du"
      [] p = "get_image_size.du" -> "bundle.hdiutil-resize"
      [] p = "bundle.hdiutil-resize" -> "bundle.hdiutil-convert"
      [] p = "bundle.hdiutil-convert" -> "bundle.codesign"
      [] p = "bundle.codesign" -> "notarize_bundle.submit"
      [] p = "notarize_bundle.submit" -> "notarize_bundle.parse_id"
      [] p = "notarize_bundle.parse_id" -> "notarize_bundle.log"
      [] p = "notarize_bundle.log" -> "notarize_bundle.read_log"
      [] p = "notarize_bundle.read_log" -> "staple_bundle"
      [] p = "staple_bundle" -> "validate.stapler-validate"
      [] p = "validate.stapler-validate" -> "validate.spctl"
      [] p = "validate.spctl" -> "validate.attach"
      [] p = "validate.attach" -> "validate.codesign-verify"
      [] p = "validate.codesign-verify" -> "validate.codesign-display"
      [] p = "validate.codesign-display" ->
            IF i < NumBinaries THEN "validate.codesign-verify" ELSE "validate.detach"
      [] p = "validate.detach" -> "set_output"
      [] p = "set_output" -> "main.else"
      [] p = "main.else" -> ElseExit
      [] p = "main.except" -> ExceptExit
      [] p = "main.finally" -> "done"

\* The call sites and steps of the try block of main, in program order
PipelineOrder ==
    << "parse_args",
       "create_keychain.delete_keychain", "create_keychain.create-keychain",
       "create_keychain.set-keychain-settings", "create_keychain.unlock-keychain",
       "create_keychain.list-keychains", "create_keychain.list-keychains-s",
       "notarization_app_specific_password", "import_notarization_credentials",
       "import_codesigning_certificate", "import_certificate.p12",
       "import_certificate.provisioning", "import_certificate.chain",
       "import_codesigning_certificate.find-identity", "setup.set-key-partition-list",
       "codesign_binary",
       "bundle.stage", "bundle.hdiutil-create", "bundle.attach", "setup_dmg_icon",
       "setup_dmg_icon.SetFile-c", "setup_dmg_icon.SetFile-a", "bundle.detach",
       "get_image_size.sw_vers", "get_image_size.du", "bundle.hdiutil-resize",
       "bundle.hdiutil-convert", "bundle.codesign",
       "notarize_bundle.submit", "notarize_bundle.parse_id", "notarize_bundle.log",
       "notarize_bundle.read_log",
       "staple_bundle",
       "validate.stapler-validate", "validate.spctl", "validate.attach",
       "validate.codesign-verify", "validate.codesign-display", "validate.detach",
       "set_output" >>

\* The place of p in that order
PipelineSteps == { PipelineOrder[k] : k \in 1..Len(PipelineOrder) }
PosOf == [ p \in PipelineSteps |-> CHOOSE k \in 1..Len(PipelineOrder) : PipelineOrder[k] = p ]
Pos(p) == PosOf[p]

\* The loop index after p completes normally
NextIndex(p) ==
    IF p \in {"codesign_binary", "validate.codesign-display"}
    THEN (IF i < NumBinaries THEN i + 1 ELSE 1)
    ELSE i

\* Where an exception raised at p is handled first: the finally clause of
\* an enclosing attach_disk_image, else the except clauses of main
HandlerOfResuming(p) == After(p)
HandlerOf(p) ==
    IF p \in IconBodySites THEN "bundle.detach"
    ELSE IF p \in ValidateBodySites THEN "validate.detach"
    ELSE "main.except"

\* The exception that leaves call site p when e is raised there.  When
\* hdiutil attach raises, the finally clause of attach_disk_image reads
\* mounted_image before it was assigned.
Thrown(e, p) ==
    IF p \in AttachSites THEN Exception("UnboundLocalError", p) ELSE e

\* p completed normally.  After the detach of attach_disk_image's finally
\* clause an exception raised in the body goes on propagating.
CompletedSwallowing(p) ==
    /\ pc' = After(p)
    /\ i' = NextIndex(p)
    /\ exc' = NoExc
Completed(p) ==
    /\ pc' = IF p \in DetachSites /\ exc # NoExc THEN HandlerOf(p) ELSE After(p)
    /\ i' = NextIndex(p)
    /\ exc' = exc

RaisedButContinues(e, p) ==
    /\ pc' = After(p)
    /\ exc' = Thrown(e, p)
    /\ i' = i
Raised(e, p) ==
    /\ pc' = HandlerOf(p)
    /\ exc' = Thrown(e, p)
    /\ i' = i

\* The attempts made so far by the decorated call in progress at p
AttemptsForgotten(p) == <<>>
Attempts(p) == IF call.site = p /\ call.status = "running" THEN call.results ELSE <<>>

Result(code, marker, stdout) == [returncode |-> code, marker |-> marker, stdout |-> stdout]

\* --------------------------------------------------------- the environment
\* What the external tools do to the state they share with the script.
\* security create-keychain creates the file and fails when one exists;
\* security delete-keychain removes it when it exits 0 and fails when
\* there is none; hdiutil attach / detach mount and unmount the image.
ToolCanExit(p, code) ==
    /\ p = "create_keychain.create-keychain" /\ keychainExists => code # 0
    /\ p \in DeleteSites /\ ~keychainExists => code # 0
    /\ p = "bundle.hdiutil-convert" /\ files.dmg # "absent" => code # 0

KeychainAfter(p, code) ==
    IF code # 0 THEN keychainExists
    ELSE IF p = "create_keychain.create-keychain" THEN TRUE
    ELSE IF p \in DeleteSites THEN FALSE
    ELSE keychainExists

MountedAfter(p, code) ==
    IF code # 0 THEN mounted
    ELSE IF p \in AttachSites THEN TRUE
    ELSE IF p \in DetachSites THEN FALSE
    ELSE mounted

\* stdout of `security list-keychains -d user`: one line per keychain of
\* the search list, indented, the path between double quotes
ListKeychainsLine(path) == <<" ", " ", " ", " ", Quote>> \o path \o <<Quote>>
ListKeychainsOutput(list) == [k \in 1..Len(list) |-> ListKeychainsLine(list[k])]

\* [keychain for keychain in search_path if keychain]
RECURSIVE NonEmpty(_)
NonEmpty(list) ==
    IF list = <<>> THEN <<>>
    ELSE IF Head(list) = <<>> THEN NonEmpty(Tail(list))
    ELSE <<Head(list)>> \o NonEmpty(Tail(list))

\* The search path create_keychain builds from the stdout of list-keychains
SearchPath(stdout) ==
    NonEmpty([k \in 1..Len(stdout) |-> StripQuotes(Strip(stdout[k]))]) \o <<KeychainPath>>

\* The list without the entries equal to path
RECURSIVE Without(_, _)
Without(list, path) ==
    IF list = <<>> THEN <<>>
    ELSE IF Head(list) = path THEN Without(Tail(list), path)
    ELSE <<Head(list)>> \o Without(Tail(list), path)

\* security delete-keychain removes the keychain from the search list;
\* security list-keychains -s replaces the list by its arguments
SearchListAfter(p, code) ==
    IF code # 0 THEN searchList
    ELSE IF p \in DeleteSites THEN Without(searchList, KeychainPath)
    ELSE IF p = "create_keychain.list-keychains-s" THEN search_path
    ELSE searchList

\* hdiutil create -ov writes the temporary image, replacing one that
\* exists; hdiutil convert writes the image and is followed by
\* dmg_writable.unlink()
FilesAfter(p, code) ==
    IF code # 0 THEN files
    ELSE IF p = "bundle.hdiutil-create" THEN [files EXCEPT !.dmg_writable = "fresh"]
    ELSE IF p = "bundle.hdiutil-convert"
    THEN [files EXCEPT !.dmg = "fresh", !.dmg_writable = "absent"]
    ELSE files

\* dist/ after dmg.unlink(missing_ok=True), shutil.rmtree(stage),
\* stage.mkdir and the copies of the binaries and resources
StagedFilesKeepingImage(f) == [f EXCEPT !.stage = "fresh"]
StagedFiles(f) == [f EXCEPT !.dmg = "absent", !.stage = "fresh"]

\* get_image_size: megabytes for a count of 512-byte blocks
GetImageSizeWrapping(size) == ((((size * 512) % 1048576) \div 1000) \div 1000) + 1
GetImageSizeRoundingDown(size) == ((size * 512) \div 1000) \div 1000
GetImageSize(size) == (((size * 512) \div 1000) \div 1000) + 1

\* ---------------------------------------------------------------- actions
\* parse_args: the checks after argparse; a failed check raises ValueError
parse_args ==
    /\ pc = "parse_args"
    /\ IF ArgsValid
       THEN Completed("parse_args")
       ELSE Raised(Exception("ValueError", "parse_args"), "parse_args")
    /\ UNCHANGED << args, env, keychainExists, mounted, call, returned,
                    notarization_request, logRequest, rc, invoked, deleteCalls, outputs, succeeded >>
    /\ UNCHANGED << keychainList, disk >>
    /\ UNCHANGED << concurrent, gpg >>

\* delete_keychain: one `security delete-keychain` run with check=False;
\* every exit code is accepted and the caller continues
DeleteKeychainChecked == TRUE
DeleteKeychainCheck == FALSE

delete_keychain ==
    /\ pc \in DeleteSites
    /\ \E code \in ExitCodes :
         /\ ToolCanExit(pc, code)
         /\ keychainExists' = KeychainAfter(pc, code)
         /\ IF DeleteKeychainCheck /\ code # 0
            THEN /\ call' = [site |-> pc, results |-> <<Result(code, FALSE, NoOutput)>>,
                             status |-> "raised"]
                 /\ Raised(CalledProcessError(code, pc, 1), pc)
            ELSE /\ call' = [site |-> pc, results |-> <<Result(code, FALSE, NoOutput)>>,
                             status |-> "returned"]
                 /\ pc' = After(pc)
                 /\ UNCHANGED << i, exc >>
    /\ invoked' = invoked \cup {pc}
    /\ deleteCalls' = [deleteCalls EXCEPT ![pc] = @ + 1]
    /\ UNCHANGED << args, env, mounted, returned, notarization_request,
                    logRequest, rc, outputs, succeeded >>
    /\ searchList' = SearchListAfter(pc, call'.results[1].returncode)
    /\ UNCHANGED << search_path, disk >>
    /\ UNCHANGED << concurrent, gpg >>

\* run_command_with_merged_output: one attempt of the command at the
\* current call site, under @stamina.retry(on=CalledProcessError)
run_command_with_merged_output ==
    /\ pc \in MergedSites
    /\ \E code \in ExitCodes :
         LET results == Attempts(pc) \o <<Result(code, FALSE, NoOutput)>>
         IN  /\ ToolCanExit(pc, code)
             /\ keychainExists' = KeychainAfter(pc, code)
             /\ mounted' = MountedAfter(pc, code)
             /\ searchList' = SearchListAfter(pc, code)
             /\ files' = FilesAfter(pc, code)
             /\ IF code = 0
                THEN /\ call' = [site |-> pc, results |-> results, status |-> "returned"]
                     /\ Completed(pc)
                ELSE IF Len(results) < CommandAttempts
                THEN /\ call' = [site |-> pc, results |-> results, status |-> "running"]
                     /\ UNCHANGED << pc, i, exc >>
                ELSE /\ call' = [site |-> pc, results |-> results, status |-> "raised"]
                     /\ Raised(CalledProcessError(code, pc, Len(results)), pc)
    /\ invoked' = invoked \cup {pc}
    /\ succeeded' = IF call'.status = "returned" THEN succeeded \cup {<<pc, i>>} ELSE succeeded
    /\ UNCHANGED << args, env, returned, notarization_request, logRequest, rc,
                    deleteCalls, outputs >>
    /\ UNCHANGED << search_path, files_before, du_blocks, image_size >>
    /\ UNCHANGED << concurrent, gpg >>

\* subprocess.run(..., check=True) outside the retry decorators
subprocess_run_checked ==
    /\ pc \in CheckedSites
    /\ \E code \in ExitCodes :
         /\ call' = [site |-> pc, results |-> <<Result(code, FALSE, NoOutput)>>,
                     status |-> IF code = 0 THEN "returned" ELSE "raised"]
         /\ IF code = 0
            THEN Completed(pc)
            ELSE Raised(CalledProcessError(code, pc, 1), pc)
    /\ invoked' = invoked \cup {pc}
    /\ succeeded' = IF call'.status = "returned" THEN succeeded \cup {<<pc, i>>} ELSE succeeded
    /\ UNCHANGED << args, env, keychainExists, mounted, returned, notarization_request,
                    logRequest, rc, deleteCalls, outputs >>
    /\ search_path' = IF pc = "create_keychain.list-keychains" /\ call'.status = "returned"
                      THEN SearchPath(ListKeychainsOutput(searchList))
                      ELSE search_path
    /\ image_size' = IF pc = "get_image_size.du" /\ call'.status = "returned"
                     THEN GetImageSize(du_blocks)
                     ELSE image_size
    /\ UNCHANGED << searchList, files, files_before, du_blocks >>
    /\ UNCHANGED << concurrent, gpg >>

\* The outcome of one notarytool invocation, from its exit code and the
\* presence of "Error: HTTP status code: 500. Internal Server Error" in stderr
ClassifyMarkerFirst(code, marker) ==
    IF marker THEN "NotaryToolInternalServerError"
    ELSE IF code = 0 THEN "success"
    ELSE "NotaryToolError"
Classify(code, marker) ==
    IF code = 0 THEN "success"
    ELSE IF marker THEN "NotaryToolInternalServerError"
    ELSE "NotaryToolError"

\* What notarytool may print on stdout at call site p
Stdout(p) == IF p = "notarize_bundle.submit" THEN SubmitOutputs ELSE { <<>> }

\* run_notarytool: one attempt of the notarytool command at the current
\* call site, under @stamina.retry(on=NotaryToolInternalServerError)
run_notarytool ==
    /\ pc \in NotarySites
    /\ \E code \in ExitCodes, marker \in BOOLEAN, stdout \in Stdout(pc) :
         LET results == Attempts(pc) \o <<Result(code, marker, stdout)>>
             outcome == Classify(code, marker)
         IN  IF outcome = "success"
             THEN /\ call' = [site |-> pc, results |-> results, status |-> "returned"]
                  /\ returned' = [returned EXCEPT ![pc] = stdout]
                  /\ Completed(pc)
             ELSE IF outcome = "NotaryToolInternalServerError"
                     /\ Len(results) < NotarytoolAttempts
             THEN /\ call' = [site |-> pc, results |-> results, status |-> "running"]
                  /\ UNCHANGED << pc, i, exc, returned >>
             ELSE /\ call' = [site |-> pc, results |-> results, status |-> "raised"]
                  /\ Raised([type |-> outcome, returncode |-> code, site |-> pc,
                             attempt |-> Len(results)], pc)
                  /\ UNCHANGED returned
    /\ invoked' = invoked \cup {pc}
    /\ succeeded' = IF call'.status = "returned" THEN succeeded \cup {<<pc, i>>} ELSE succeeded
    /\ logRequest' = IF pc = "notarize_bundle.log" THEN notarization_request ELSE logRequest
    /\ UNCHANGED << args, env, keychainExists, mounted, notarization_request, rc,
                    deleteCalls, outputs >>
    /\ UNCHANGED << keychainList, disk >>
    /\ UNCHANGED << concurrent, gpg >>

\* notarization_app_specific_password, evaluated while the argument list
\* of the store-credentials command is built
notarization_app_specific_password ==
    /\ pc = "notarization_app_specific_password"
    /\ IF Truthy(env.MACOS_NOTARIZE_APP_PASSWORD)
       THEN Completed(pc)
       ELSE Raised(Exception("MissingNotarizePasswordError", pc), pc)
    /\ UNCHANGED << args, env, keychainExists, mounted, call, returned,
                    notarization_request, logRequest, rc, invoked, deleteCalls, outputs, succeeded >>
    /\ UNCHANGED << keychainList, disk >>
    /\ UNCHANGED << concurrent, gpg >>

\* import_codesigning_certificate up to the first import_certificate call:
\* the certificate is read, decoded, and the passphrase is read
import_codesigning_certificate ==
    /\ pc = "import_codesigning_certificate"
    /\ IF ~Truthy(env.MACOS_CERTIFICATE) \/ ~Base64Valid(env.MACOS_CERTIFICATE)
       THEN Raised(Exception("MissingCodeSigningCertificateError", pc), pc)
       ELSE IF ~Truthy(env.MACOS_CERTIFICATE_PASSPHRASE)
       THEN Raised(Exception("MissingCodeSigningCertificatePassphraseError", pc), pc)
       ELSE Completed(pc)
    /\ UNCHANGED << args, env, keychainExists, mounted, call, returned,
                    notarization_request, logRequest, rc, invoked, deleteCalls, outputs, succeeded >>
    /\ UNCHANGED << keychainList, disk >>
    /\ UNCHANGED << concurrent, gpg >>

\* setup_dmg_icon up to its first SetFile: an invalid URL is skipped, a
\* failed download raises
setup_dmg_icon ==
    /\ pc = "setup_dmg_icon"
    /\ \E valid \in BOOLEAN, fetched \in BOOLEAN :
         IF ~valid
         THEN /\ pc' = "bundle.detach"
              /\ UNCHANGED << i, exc >>
         ELSE IF fetched
         THEN Completed(pc)
         ELSE Raised(Exception("URLError", pc), pc)
    /\ UNCHANGED << args, env, keychainExists, mounted, call, returned,
                    notarization_request, logRequest, rc, invoked, deleteCalls, outputs, succeeded >>
    /\ UNCHANGED << keychainList, disk >>
    /\ UNCHANGED << concurrent, gpg >>

\* notarize_bundle between the two notarytool calls: the identifier is
\* parsed from the stdout of submit; none found raises NotaryToolError
notarize_bundle_parse_id ==
    /\ pc = "notarize_bundle.parse_id"
    /\ LET request == ParseRequest(returned["notarize_bundle.submit"], None)
       IN  /\ notarization_request' = request
           /\ IF RequestMissing(request)
              THEN Raised(Exception("NotaryToolError", pc), pc)
              ELSE Completed(pc)
    /\ UNCHANGED << args, env, keychainExists, mounted, call, returned, logRequest,
                    rc, invoked, deleteCalls, outputs, succeeded >>
    /\ UNCHANGED << keychainList, disk >>
    /\ UNCHANGED << concurrent, gpg >>

\* notarize_bundle after `notarytool log`: the log file is opened and
\* parsed as JSON; a missing or malformed file raises
notarize_bundle_read_log ==
    /\ pc = "notarize_bundle.read_log"
    /\ \E parsed \in BOOLEAN :
         IF parsed
         THEN Completed(pc)
         ELSE Raised(Exception("JSONDecodeError", pc), pc)
    /\ UNCHANGED << args, env, keychainExists, mounted, call, returned,
                    notarization_request, logRequest, rc, invoked, deleteCalls, outputs, succeeded >>
    /\ UNCHANGED << keychainList, disk >>
    /\ UNCHANGED << concurrent, gpg >>

\* The two set_output calls that end the try block of main
set_output ==
    /\ pc = "set_output"
    /\ outputs' = outputs \cup {"asset", "content_type"}
    /\ Completed(pc)
    /\ UNCHANGED << args, env, keychainExists, mounted, call, returned,
                    notarization_request, logRequest, rc, invoked, deleteCalls, succeeded >>
    /\ UNCHANGED << keychainList, disk >>
    /\ UNCHANGED << concurrent, gpg >>

\* The except clauses of main: a CalledProcessError returns the exit code
\* of its command, any other Exception returns 1
main_except ==
    /\ pc = "main.except"
    /\ rc' = IF exc.type = "CalledProcessError" THEN exc.returncode ELSE 1
    /\ pc' = After(pc)
    /\ UNCHANGED << i, args, env, keychainExists, mounted, call, returned,
                    notarization_request, logRequest, exc, invoked, deleteCalls, outputs, succeeded >>
    /\ UNCHANGED << keychainList, disk >>
    /\ UNCHANGED << concurrent, gpg >>

\* The else clause of main
main_else ==
    /\ pc = "main.else"
    /\ rc' = 0
    /\ pc' = After(pc)
    /\ UNCHANGED << i, args, env, keychainExists, mounted, call, returned,
                    notarization_request, logRequest, exc, invoked, deleteCalls, outputs, succeeded >>
    /\ UNCHANGED << keychainList, disk >>
    /\ UNCHANGED << concurrent, gpg >>

\* create_notarization_bundle up to hdiutil create: the image of a previous
\* build is unlinked, the staging directory is removed and made again, and
\* the binaries and resources are copied into it
create_notarization_bundle_stage ==
    /\ pc = "bundle.stage"
    /\ files_before' = files
    /\ files' = StagedFiles(files)
    /\ Completed(pc)
    /\ UNCHANGED << args, env, keychainExists, mounted, call, returned,
                    notarization_request, logRequest, rc, invoked, deleteCalls, outputs,
                    succeeded, keychainList, du_blocks, image_size >>
    /\ UNCHANGED << concurrent, gpg >>

Next ==
    \/ parse_args
    \/ delete_keychain
    \/ run_command_with_merged_output
    \/ subprocess_run_checked
    \/ run_notarytool
    \/ notarization_app_specific_password
    \/ import_codesigning_certificate
    \/ create_notarization_bundle_stage
    \/ setup_dmg_icon
    \/ notarize_bundle_parse_id
    \/ notarize_bundle_read_log
    \/ set_output
    \/ main_except
    \/ main_else

Spec == Init /\ [][Next]_vars

\* ------------------------------------------------------ concurrent runs
\* Runs of main() that share a machine, reduced to the steps that touch the
\* keychain at keychain_path(): the delete and the create of
\* create_keychain, the commands given --keychain (codesign, notarytool),
\* and the delete of main's finally clause.  A call with its retries is
\* one step.

\* Run r has created its keychain and has not ended
InWindow(r) == run[r].created /\ run[r].pc # "done"

\* The keychain at r's path, as r finds it
KeychainSeenBy(r) ==
    IF keychainOwner[PathOf(r)] = r THEN "own"
    ELSE IF keychainOwner[PathOf(r)] = 0 THEN "missing"
    ELSE "other"

\* delete_keychain() in run r, at either call site
run_delete_keychain(r) ==
    /\ run[r].pc \in DeleteSites
    /\ \E code \in ExitCodes :
         /\ keychainOwner[PathOf(r)] = 0 => code # 0
         /\ keychainOwner' =
               IF code = 0 THEN [keychainOwner EXCEPT ![PathOf(r)] = 0] ELSE keychainOwner
         /\ run' = [q \in Runs |->
                      IF q = r
                      THEN [run[q] EXCEPT !.pc = IF run[r].pc = "main.finally"
                                                  THEN "done"
                                                  ELSE "create_keychain.create-keychain"]
                      ELSE IF code = 0 /\ InWindow(q)
                      THEN [run[q] EXCEPT !.interfered = TRUE]
                      ELSE run[q]]
    /\ UNCHANGED << sequential, gpg >>

\* security create-keychain in run r: fails when a keychain is at the path
run_create_keychain(r) ==
    /\ run[r].pc = "create_keychain.create-keychain"
    /\ \E code \in ExitCodes :
         /\ keychainOwner[PathOf(r)] # 0 => code # 0
         /\ IF code = 0
            THEN /\ keychainOwner' = [keychainOwner EXCEPT ![PathOf(r)] = r]
                 /\ run' = [run EXCEPT ![r].pc = "codesign_binary", ![r].created = TRUE]
            ELSE /\ keychainOwner' = keychainOwner
                 /\ run' = [run EXCEPT ![r].pc = "main.finally", ![r].failed = TRUE]
    /\ UNCHANGED << sequential, gpg >>

\* codesign / notarytool in run r, given --keychain keychain_path()
run_use_keychain(r) ==
    /\ run[r].pc \in {"codesign_binary", "notarize_bundle.submit"}
    /\ \E code \in ExitCodes :
         run' = [run EXCEPT
                   ![r].used = KeychainSeenBy(r),
                   ![r].failed = code # 0,
                   ![r].pc = IF code # 0 THEN "main.finally"
                             ELSE IF run[r].pc = "codesign_binary"
                             THEN "notarize_bundle.submit"
                             ELSE "main.finally"]
    /\ UNCHANGED << sequential, keychainOwner, gpg >>

InitConcurrent ==
    Start({ a \in ValidArguments : Len(a.binaries) = 1 /\ a.dmg_icon_url = 0 },
          { GoodEnvironment }, { FALSE }, { <<LoginKeychain>> }, { CleanFiles },
          { MaxBlocks })

NextConcurrent ==
    \E r \in Runs :
        \/ run_delete_keychain(r)
        \/ run_create_keychain(r)
        \/ run_use_keychain(r)

SpecConcurrent == InitConcurrent /\ [][NextConcurrent]_vars

\* ------------------------------------------------------------ gpg_sign.py
\* main() of gpg_sign.py.  Its run_command_with_merged_output has no retry
\* decorator: each gpg command is invoked once, with check=True.

\* The statement that follows p in the try block of main
GpgAfterSkippingVerify(p) ==
    CASE p = "emit_metadata" -> "gpg_sign_artifact"
      [] p = "gpg_sign_artifact" -> "set_output"
      [] p = "validate" -> "set_output"
      [] OTHER -> "done"
GpgAfter(p) ==
    CASE p = "emit_metadata" -> "gpg_sign_artifact"
      [] p = "gpg_sign_artifact" -> "validate"
      [] p = "validate" -> "set_output"
      [] OTHER -> "done"

\* `return code` from main
GpgReturn(code) == [gpg EXCEPT !.pc = "done", !.rc = code]

\* run_command_with_merged_output(command) at p: gpg exits with code;
\* check=True raises CalledProcessError, which main turns into
\* `return e.returncode`
GpgCommand(g, p, code) ==
    LET ran == [g EXCEPT !.commands = Append(g.commands, [site |-> p, returncode |-> code])]
    IN  IF code = 0
        THEN [ran EXCEPT !.pc = GpgAfter(p)]
        ELSE [ran EXCEPT !.pc = "done", !.rc = code]

\* main up to the try block: argparse and the two early returns
gpg_sign_main ==
    /\ gpg.pc = "main.parse_args"
    /\ gpg' = IF Len(gpg.artifact) > 1 THEN GpgReturn(1)
              ELSE IF gpg.artifact[1] # "file" THEN GpgReturn(1)
              ELSE [gpg EXCEPT !.pc = "emit_metadata"]
    /\ UNCHANGED << sequential, concurrent >>

\* emit_metadata: prints the workflow metadata when CI is "true"
gpg_sign_emit_metadata ==
    /\ gpg.pc = "emit_metadata"
    /\ gpg' = [gpg EXCEPT !.pc = GpgAfter("emit_metadata"),
                          !.printed = IF gpg.ci THEN {"metadata"} ELSE {}]
    /\ UNCHANGED << sequential, concurrent >>

\* gpg_sign_artifact: dist/<release> is removed and created again, then
\* gpg --detach-sign writes <artifact>.asc into it.  shutil.rmtree of a
\* path that is not a directory raises NotADirectoryError, which main
\* turns into `return 1`.
gpg_sign_artifact ==
    /\ gpg.pc = "gpg_sign_artifact"
    /\ IF gpg.stage = "file"
       THEN gpg' = GpgReturn(1)
       ELSE \E code \in ExitCodes, written \in BOOLEAN :
               /\ code = 0 => written
               /\ gpg' = [GpgCommand(gpg, "gpg_sign_artifact", code) EXCEPT
                            !.stage = "directory",
                            !.asc = IF written THEN "written" ELSE "absent"]
    /\ UNCHANGED << sequential, concurrent >>

\* validate: gpg --verify of the signature against the artifact
gpg_sign_validate ==
    /\ gpg.pc = "validate"
    /\ \E code \in ExitCodes : gpg' = GpgCommand(gpg, "validate", code)
    /\ UNCHANGED << sequential, concurrent >>

\* set_output(name="signature", ...) and `return 0`
gpg_sign_set_output ==
    /\ gpg.pc = "set_output"
    /\ gpg' = [gpg EXCEPT !.pc = "done", !.rc = 0, !.outputs = {"signature"}]
    /\ UNCHANGED << sequential, concurrent >>

InitGpgSign ==
    /\ StartOfMain({ a \in ValidArguments : Len(a.binaries) = 1 /\ a.dmg_icon_url = 0 },
                   { GoodEnvironment }, { FALSE }, { <<LoginKeychain>> }, { CleanFiles },
                   { MaxBlocks })
    /\ gpg \in GpgStarts

NextGpgSign ==
    \/ gpg_sign_main
    \/ gpg_sign_emit_metadata
    \/ gpg_sign_artifact
    \/ gpg_sign_validate
    \/ gpg_sign_set_output

SpecGpgSign == InitGpgSign /\ [][NextGpgSign]_vars

\* ------------------------------------------------- runs of one function
\* A step in which nothing fails: the command exits so that the call
\* returns, and no exception is raised
Quiet == call'.status \in {"none", "returned"} /\ exc' = NoExc

\* create_keychain in a run that starts with any search list: main up to
\* the return of create_keychain, or to the end of the run when one of its
\* commands fails
InCreateKeychain ==
    pc \in { "parse_args", "create_keychain.delete_keychain",
             "create_keychain.create-keychain", "create_keychain.set-keychain-settings",
             "create_keychain.unlock-keychain", "create_keychain.list-keychains",
             "create_keychain.list-keychains-s", "main.except", "main.finally" }

InitCreateKeychain ==
    Start(ValidArguments, { GoodEnvironment }, BOOLEAN, SearchLists, { CleanFiles },
          { MaxBlocks })

NextCreateKeychain ==
    \/ InCreateKeychain /\ parse_args
    \/ InCreateKeychain /\ delete_keychain
    \/ InCreateKeychain /\ run_command_with_merged_output
    \/ InCreateKeychain /\ subprocess_run_checked
    \/ InCreateKeychain /\ main_except

SpecCreateKeychain == InitCreateKeychain /\ [][NextCreateKeychain]_vars

\* get_image_size in a run that measures any number of blocks: main up to
\* the hdiutil resize that is given the computed size, with no failure
InImageSize ==
    /\ pc \in PipelineSteps
    /\ Pos(pc) <= Pos("bundle.hdiutil-resize")

InitImageSize ==
    Start({ a \in ValidArguments : Len(a.binaries) = 1 /\ a.dmg_icon_url = 0 },
          { GoodEnvironment }, { FALSE }, { <<LoginKeychain>> }, { CleanFiles },
          0..MaxBlocks)

NextImageSize ==
    \/ InImageSize /\ parse_args /\ Quiet
    \/ InImageSize /\ delete_keychain /\ Quiet
    \/ InImageSize /\ run_command_with_merged_output /\ Quiet
    \/ InImageSize /\ subprocess_run_checked /\ Quiet
    \/ InImageSize /\ run_notarytool /\ Quiet
    \/ InImageSize /\ notarization_app_specific_password /\ Quiet
    \/ InImageSize /\ import_codesigning_certificate /\ Quiet
    \/ InImageSize /\ create_notarization_bundle_stage /\ Quiet

SpecImageSize == InitImageSize /\ [][NextImageSize]_vars

\* create_notarization_bundle in a run that finds any files of a previous
\* build: main without failure up to the bundle stage, then the bundle
\* stage with every outcome of its commands, to its return or to the end
\* of the run when it fails
BeforeBundle ==
    /\ pc \in PipelineSteps
    /\ Pos(pc) < Pos("bundle.stage")

InBundle ==
    pc \in { PipelineOrder[k] : k \in Pos("bundle.stage")..Pos("bundle.codesign") }
           \cup { "main.except", "main.finally" }

BundleRun == (BeforeBundle \/ InBundle) /\ (BeforeBundle => Quiet)

InitBundle ==
    Start(ValidArguments, { GoodEnvironment }, { FALSE }, { <<LoginKeychain>> }, FileStates,
          { MaxBlocks })

NextBundle ==
    \/ parse_args /\ BundleRun
    \/ delete_keychain /\ BundleRun
    \/ run_command_with_merged_output /\ BundleRun
    \/ subprocess_run_checked /\ BundleRun
    \/ run_notarytool /\ BundleRun
    \/ notarization_app_specific_password /\ BundleRun
    \/ import_codesigning_certificate /\ BundleRun
    \/ create_notarization_bundle_stage /\ BundleRun
    \/ setup_dmg_icon /\ BundleRun
    \/ main_except /\ BundleRun

SpecBundle == InitBundle /\ [][NextBundle]_vars

\* ------------------------------------------------------------- properties
\* An attempt that failed with the HTTP-500 signature
Http500(result) == result.returncode # 0 /\ result.marker

TotalDeleteCalls ==
    deleteCalls["create_keychain.delete_keychain"] + deleteCalls["main.finally"]

\* C1 (as stated): when a run has ended, delete_keychain has been invoked
\* exactly once in it.
C1_DeleteKeychainExactlyOnce == pc = "done" => TotalDeleteCalls = 1

\* C1 (amended): in every run, whether every stage succeeds or one fails,
\* the finally clause of main invokes delete_keychain exactly once, as the
\* last step of the run; a run whose arguments are valid has invoked it
\* once more before, as the first statement of create_keychain.
C1_TeardownOnceAfterSetupDelete ==
    /\ deleteCalls["main.finally"] = IF pc = "done" THEN 1 ELSE 0
    /\ pc = "done" =>
         deleteCalls["create_keychain.delete_keychain"]
            = IF /\ \A b \in 1..Len(args.binaries) : args.binaries[b]
                 /\ \A r \in 1..Len(args.resources) : args.resources[r]
                 /\ args.dmg_icon_url <= 1
                 /\ args.release # ""
              THEN 1 ELSE 0

C1_Witness ==
    /\ pc = "done"
    /\ exc.type = "CalledProcessError"
    /\ exc.site = "bundle.codesign"
    /\ TotalDeleteCalls = 2

C3_RetryUntilSuccess ==
    call.site = "notarize_bundle.submit" =>
        LET r == call.results
            n == Len(call.results)
        IN  /\ n \in 1..3
            /\ \A k \in 1..3 :
                 (n >= k /\ (\A j \in 1..(k - 1) : Http500(r[j])) /\ r[k].returncode = 0)
                    => /\ n = k
                       /\ call.status = "returned"
                       /\ returned["notarize_bundle.submit"] = r[k].stdout
            /\ \A k \in 1..2 :
                 (n = k /\ \A j \in 1..k : Http500(r[j]))
                    => call.status = "running" /\ pc = "notarize_bundle.submit"

C3_Witness ==
    /\ call.site = "notarize_bundle.submit"
    /\ Len(call.results) = 3
    /\ Http500(call.results[1])
    /\ Http500(call.results[2])
    /\ call.results[3].returncode = 0
    /\ call.results[1].stdout # call.results[3].stdout
    /\ call.status = "returned"
    /\ returned["notarize_bundle.submit"] = call.results[3].stdout

\* C4: a run_notarytool call whose attempts all fail with the HTTP-500
\* signature invokes the tool 3 times, never a 4th, and raises the
\* NotaryToolInternalServerError of the third attempt; the run then
\* returns a failure.
C4_ExhaustedRetriesRaise ==
    /\ call.site \in NotarySites =>
         /\ Len(call.results) <= 3
         /\ (Len(call.results) = 3 /\ \A j \in 1..3 : Http500(call.results[j]))
              => /\ call.status = "raised"
                 /\ exc.type = "NotaryToolInternalServerError"
                 /\ exc.site = call.site
                 /\ exc.attempt = 3
                 /\ pc \in {"main.except", "main.finally"}
    /\ (pc \in {"main.finally", "done"} /\ exc.type = "NotaryToolInternalServerError")
         => rc = 1

C4_Witness ==
    /\ pc = "main.finally"
    /\ call.site = "notarize_bundle.submit"
    /\ Len(call.results) = 3
    /\ \A j \in 1..3 : Http500(call.results[j])
    /\ call.status = "raised"
    /\ rc = 1

\* C5: each notarytool invocation has one of three outcomes, decided by
\* its exit code and the 500 marker: exit 0 returns, marker or not;
\* non-zero with the marker is retried while attempts remain; non-zero
\* without the marker raises NotaryToolError at once and is the last
\* invocation of the call (the only one when it is the first attempt).
C5_ThreeOutcomes ==
    call.site \in NotarySites =>
        LET r == call.results
            n == Len(call.results)
        IN  \A j \in 1..n :
              /\ r[j].returncode = 0 => j = n /\ call.status = "returned"
              /\ Http500(r[j]) =>
                   \/ j < n
                   \/ j < 3 /\ call.status = "running" /\ pc = call.site
                   \/ j = 3 /\ call.status = "raised"
                        /\ exc.type = "NotaryToolInternalServerError"
              /\ (r[j].returncode # 0 /\ ~r[j].marker) =>
                   /\ j = n
                   /\ call.status = "raised"
                   /\ exc.type = "NotaryToolError"
                   /\ exc.site = call.site
                   /\ pc # call.site

C5_Witness ==
    /\ call.site = "notarize_bundle.log"
    /\ Len(call.results) = 2
    /\ Http500(call.results[1])
    /\ call.results[2].returncode = 0
    /\ call.results[2].marker
    /\ call.status = "returned"

\* C6: when notarytool submit exits 0 and its stdout has no line of the
\* form `id: <value>`, notarize_bundle raises NotaryToolError and the run
\* fails without invoking notarytool log, stapler or any validation
\* command; notarytool log is never given a null or empty identifier.
C6_MissingIdIsFatal ==
    LET withoutId == { <<>>, <<LineStatus>>, <<LineIdBlank, LineAid>> }
        later == { "notarize_bundle.log", "staple_bundle", "validate.stapler-validate",
                   "validate.spctl", "validate.attach", "validate.codesign-verify" }
    IN  /\ (returned["notarize_bundle.submit"] \in withoutId
              /\ pc # "notarize_bundle.parse_id")
             => /\ exc.type = "NotaryToolError"
                /\ exc.site = "notarize_bundle.parse_id"
                /\ pc \in {"main.except", "main.finally", "done"}
                /\ invoked \cap later = {}
                /\ pc = "done" => rc = 1 /\ outputs = {}
        /\ "notarize_bundle.log" \in invoked => logRequest # None /\ logRequest # <<>>

C6_Witness ==
    /\ pc = "done"
    /\ returned["notarize_bundle.submit"] = <<LineIdBlank, LineAid>>
    /\ exc.type = "NotaryToolError"
    /\ rc = 1

\* C7 (as stated): once submit has returned an identifier, a failure to
\* fetch the log or to read it does not fail the run: stapling is still
\* executed.
C7_LogFailureDoesNotFailRun ==
    (pc = "done" /\ exc.site \in {"notarize_bundle.log", "notarize_bundle.read_log"})
        => "staple_bundle" \in invoked

C9_MissingSecretFailsBeforeAnySubprocess ==
    exc.type \in { "MissingCodeSigningCertificateError",
                   "MissingCodeSigningCertificatePassphraseError",
                   "MissingNotarizePasswordError" }
        => invoked \subseteq {"main.finally"} /\ (pc = "main.except" => invoked = {})

\* C10: when a binary or resource path is not a regular file, or the
\* release name is empty, ValueError is raised before any external tool
\* has been invoked, nothing is signed or bundled, main returns 1, and
\* the only tool the run invokes is the delete-keychain of the teardown.
C10_InvalidArgumentsFailFirst ==
    ( \/ \E b \in 1..Len(args.binaries) : ~args.binaries[b]
      \/ \E r \in 1..Len(args.resources) : ~args.resources[r]
      \/ args.release = "" )
        => /\ pc \in {"parse_args", "main.except", "main.finally", "done"}
           /\ pc \in {"main.except", "main.finally"} => invoked = {}
           /\ pc # "parse_args" => exc.type = "ValueError"
           /\ invoked \subseteq {"main.finally"}
           /\ pc = "done" => rc = 1 /\ outputs = {}
           /\ pc # "done" => rc \in {NoReturn, 1}

C10_Witness ==
    /\ pc = "done"
    /\ \A b \in 1..Len(args.binaries) : args.binaries[b]
    /\ \A r \in 1..Len(args.resources) : args.resources[r]
    /\ args.release = ""
    /\ exc.type = "ValueError"
    /\ rc = 1
    /\ invoked = {"main.finally"}

\* The exit code of the command whose failure ended the last decorated call
LastExitCode == call.results[Len(call.results)].returncode

\* C11: main returns 0 exactly when no stage failed; when the run failed
\* because an external tool exited non-zero, main returns that tool's exit
\* code; for every other error it returns 1.
C11_ExitCodeIsToolExitCode ==
    pc = "main.finally" =>
        /\ rc = 0 <=> exc = NoExc
        /\ call.status = "raised" => rc = LastExitCode
        /\ exc # NoExc /\ exc.site \notin MergedSites \cup NotarySites \cup CheckedSites
              => rc = 1

\* The command at call site p has exited 0 (for every binary, at a site
\* inside a `for binary in ...` loop)
Succeeded(p) == <<p, 1>> \in succeeded
SucceededForAll(p) == \A b \in 1..Len(args.binaries) : <<p, b>> \in succeeded

\* The stapler check, the Gatekeeper check and the verification of every
\* named binary inside the mounted image have passed
Validated ==
    /\ Succeeded("validate.stapler-validate")
    /\ Succeeded("validate.spctl")
    /\ Succeeded("validate.attach")
    /\ SucceededForAll("validate.codesign-verify")
    /\ SucceededForAll("validate.codesign-display")
    /\ Succeeded("validate.detach")

\* C12: the outputs asset and content_type are written only when every
\* stage up to and including validation has succeeded; when the staple
\* check, the Gatekeeper check or the verification of a binary has failed,
\* neither output is written and main does not return 0.
C12_OutputsOnlyAfterValidation ==
    /\ outputs \in { {}, {"asset", "content_type"} }
    /\ outputs # {} =>
          /\ exc = NoExc
          /\ SucceededForAll("codesign_binary")
          /\ Succeeded("bundle.codesign")
          /\ Succeeded("notarize_bundle.submit")
          /\ Succeeded("staple_bundle")
          /\ Validated
    /\ exc.site \in { "validate.stapler-validate", "validate.spctl",
                      "validate.codesign-verify", "validate.codesign-display" }
          => outputs = {} /\ rc # 0
    /\ rc = 0 => Validated /\ outputs = {"asset", "content_type"}

C12_Witness ==
    /\ pc = "done"
    /\ rc = 0
    /\ outputs = {"asset", "content_type"}
    /\ NumBinaries = MaxBinaries

\* The stages of main: arguments, keychain setup, signing of the binaries,
\* bundle, notarization, stapling, validation, outputs
StageOf ==
    [ p \in PipelineSteps |->
        IF Pos(p) < Pos("create_keychain.delete_keychain") THEN 0
        ELSE IF Pos(p) < Pos("codesign_binary") THEN 1
        ELSE IF Pos(p) < Pos("bundle.stage") THEN 2
        ELSE IF Pos(p) < Pos("notarize_bundle.submit") THEN 3
        ELSE IF Pos(p) < Pos("staple_bundle") THEN 4
        ELSE IF Pos(p) < Pos("validate.stapler-validate") THEN 5
        ELSE IF Pos(p) < Pos("set_output") THEN 6
        ELSE 7 ]
StageNo(p) == StageOf[p]

\* No command of a stage after the failed one has been invoked
NoLaterStageInvoked ==
    \A s \in invoked \ {"main.finally"} : StageNo(s) <= StageNo(exc.site)

\* C13 (as stated): once a stage has failed, no command of a later stage is
\* invoked, and the only operation that still runs after the failure is
\* the keychain teardown.
C13_OnlyTeardownAfterFailure ==
    exc # NoExc =>
        /\ NoLaterStageInvoked
        /\ call.site \notin {"none", "main.finally"} => Pos(call.site) <= Pos(exc.site)

\* The hdiutil detach of the attach_disk_image block that encloses p
EnclosingDetach(p) ==
    IF p \in IconBodySites THEN {"bundle.detach"}
    ELSE IF p \in ValidateBodySites THEN {"validate.detach"}
    ELSE {}

\* C13 (amended): once a stage has failed, no command of a later stage is
\* invoked; what still runs after the failure is the keychain teardown
\* and, when the failure happened while the disk image was attached, the
\* hdiutil detach of that image, which belongs to the failed stage.
C13_FailureStopsPipeline ==
    exc # NoExc =>
        /\ NoLaterStageInvoked
        /\ pc \in {"main.except", "main.finally", "done"} \cup EnclosingDetach(exc.site)
        /\ call.site \notin {"none", "main.finally"} /\ Pos(call.site) > Pos(exc.site)
              => call.site \in EnclosingDetach(exc.site)

C13_Witness ==
    /\ exc.site = "validate.codesign-verify"
    /\ call.site = "validate.detach"
    /\ call.status = "returned"
    /\ pc = "main.except"

\* Some command of stage n has been invoked
StageStarted(n) == \E s \in invoked \ {"main.finally"} : StageNo(s) = n

\* C14: the stages occur in a fixed order: every binary is code-signed
\* before the first command of the bundle stage, the bundle is built,
\* converted and code-signed before it is submitted, `notarytool submit
\* --wait` has exited 0 with an identifier before stapling starts, stapling
\* has succeeded before any validation command runs, and the run never
\* steps back into an earlier stage.
C14_StagesInOrder ==
    /\ StageStarted(3) => SucceededForAll("codesign_binary")
    /\ StageStarted(4) =>
          /\ Succeeded("bundle.hdiutil-create")
          /\ Succeeded("bundle.hdiutil-resize")
          /\ Succeeded("bundle.hdiutil-convert")
          /\ Succeeded("bundle.codesign")
    /\ StageStarted(5) =>
          /\ Succeeded("notarize_bundle.submit")
          /\ ~RequestMissing(notarization_request)
          /\ returned["notarize_bundle.submit"] # NoOutput
    /\ StageStarted(6) => Succeeded("staple_bundle")
    /\ \A s \in invoked \ {"main.finally"} :
          pc \in PipelineSteps
             => StageNo(s) <= StageNo(pc)

C14_Witness ==
    /\ pc = "validate.stapler-validate"
    /\ "validate.stapler-validate" \in invoked
    /\ call.status = "running"
    /\ Len(args.binaries) = MaxBinaries
    /\ args.dmg_icon_url = 1

\* One step taken at a delete_keychain() call site returns to the caller
DeleteKeychainReturns ==
    pc \in DeleteSites =>
        /\ call'.site = pc /\ call'.status = "returned"
        /\ pc' = After(pc)
        /\ exc' = exc
        /\ rc' = rc

\* C17: delete_keychain never aborts its caller: whatever the exit code of
\* `security delete-keychain`, the call returns normally, control goes on
\* to the statement after it, no exception is raised or replaced and the
\* return value of main is left as it was.
C17_TeardownNeverAborts == [][DeleteKeychainReturns]_vars

C17_Witness ==
    /\ pc = "done"
    /\ call.site = "main.finally"
    /\ call.results[1].returncode = MaxExit
    /\ rc = 0
    /\ exc = NoExc

\* Call sites that run codesign, notarytool submit or notarytool log
KeychainUserSites ==
    { "codesign_binary", "bundle.codesign", "notarize_bundle.submit",
      "notarize_bundle.log", "validate.codesign-verify", "validate.codesign-display" }

\* Every step of setup_codesigning_and_notarization_keychain has succeeded
SetupCompleted ==
    /\ deleteCalls["create_keychain.delete_keychain"] = 1
    /\ Succeeded("create_keychain.create-keychain")
    /\ Succeeded("create_keychain.set-keychain-settings")
    /\ Succeeded("create_keychain.unlock-keychain")
    /\ Succeeded("create_keychain.list-keychains")
    /\ Succeeded("create_keychain.list-keychains-s")
    /\ Truthy(env.MACOS_NOTARIZE_APP_PASSWORD)
    /\ Succeeded("import_notarization_credentials")
    /\ Base64Valid(env.MACOS_CERTIFICATE)
    /\ Succeeded("import_certificate.p12")
    /\ Succeeded("import_certificate.provisioning")
    /\ Succeeded("import_certificate.chain")
    /\ Succeeded("import_codesigning_certificate.find-identity")
    /\ Succeeded("setup.set-key-partition-list")

\* C18: whenever codesign, notarytool submit or notarytool log is invoked,
\* every step of keychain setup has succeeded in this run (pre-existing
\* keychain deleted, keychain created, unlocked, put on the search list,
\* credentials and certificates imported, partition list set), the
\* keychain exists and teardown has not run; and after a failed setup step
\* no later setup step and no signing command is invoked.
C18_KeychainReadyWhenUsed ==
    /\ call.site \in KeychainUserSites =>
          /\ SetupCompleted
          /\ keychainExists
          /\ deleteCalls["main.finally"] = 0
    /\ \A s \in invoked \cap KeychainUserSites : SetupCompleted
    /\ exc # NoExc /\ StageNo(exc.site) = 1 =>
          \A s \in invoked \ {"main.finally"} : Pos(s) <= Pos(exc.site)

C18_Witness ==
    /\ call.site = "notarize_bundle.log"
    /\ call.status = "returned"
    /\ "bundle.codesign" \in invoked
    /\ keychainExists

\* C19: a command run through run_command_with_merged_output is invoked
\* again after every non-zero exit until it exits 0 or has been invoked 3
\* times: the call returns at the first attempt that exits 0, raises after
\* a 3rd failed attempt the CalledProcessError carrying the exit code of
\* that attempt, and never makes a 4th attempt.
C19_CommandInvokedAtMostThrice ==
    call.site \in MergedSites =>
        LET n == Len(call.results)
        IN  /\ n \in 1..3
            /\ \A k \in 1..(n - 1) : call.results[k].returncode # 0
            /\ call.status = "returned" <=> call.results[n].returncode = 0
            /\ call.status = "raised" <=> call.results[n].returncode # 0 /\ n = 3
            /\ call.status = "running" <=> call.results[n].returncode # 0 /\ n < 3
            /\ call.status = "running" => pc = call.site
            /\ call.status = "raised" /\ call.site \notin AttachSites =>
                  exc = CalledProcessError(call.results[n].returncode, call.site, 3)

C19_Witness ==
    /\ call.site = "staple_bundle"
    /\ call.status = "returned"
    /\ Len(call.results) = 3
    /\ call.results[1].returncode # call.results[2].returncode

\* The step in which `security list-keychains -s` exits 0 sets the search
\* list to the listed one followed by the new keychain
AppendsKeychain ==
    pc = "create_keychain.list-keychains-s" =>
        /\ search_path = Append(searchList, KeychainPath)
        /\ pc' = After(pc) => searchList' = Append(searchList, KeychainPath)

\* C20: when create_keychain succeeds, the search list is exactly the
\* entries `security list-keychains` listed, in the order listed, followed
\* by keychain_path() as the last entry.
C20_SearchListAppended == [][AppendsKeychain]_vars

C20_Witness ==
    /\ pc = After("create_keychain.list-keychains-s")
    /\ exc = NoExc
    /\ searchList = <<SpacedKeychain, QuotedKeychain, KeychainPath>>

\* C16: get_image_size is monotonic in the number of blocks measured: the
\* size computed for the measured count is at least the size for every
\* smaller count, and at most the size for twice the count.
C16_ImageSizeMonotonic ==
    pc = "bundle.hdiutil-resize" =>
        /\ image_size = GetImageSize(du_blocks)
        /\ \A a \in 0..du_blocks : GetImageSize(a) <= image_size
        /\ image_size <= GetImageSize(2 * du_blocks)

C16_Witness ==
    /\ pc = "bundle.hdiutil-resize"
    /\ image_size = 3
    /\ GetImageSize(du_blocks - 1) = 2

\* dist/ after a build from a clean state
BuiltFiles == [stage |-> "fresh", dmg |-> "fresh", dmg_writable |-> "absent"]

\* Call sites of create_notarization_bundle between staging and the
\* conversion to the final image
BuildingSites ==
    { PipelineOrder[k] : k \in (Pos("bundle.stage") + 1)..Pos("bundle.hdiutil-convert") }

\* C15: whatever a previous build left of the staging directory, the image
\* and the temporary image, the build removes the stale image and staging
\* directory before staging and overwrites the stale temporary image, none
\* of its tools is made to fail by what was left, and when its commands
\* succeed it ends as a build from a clean state does: staging directory
\* freshly filled, image present, temporary image absent.
C15_BundleIdempotent ==
    /\ pc \in BuildingSites => files.stage = "fresh" /\ files.dmg = "absent"
    /\ pc \in BuildingSites /\ Succeeded("bundle.hdiutil-create")
          => files.dmg_writable = "fresh"
    /\ pc \in {"bundle.hdiutil-create", "bundle.hdiutil-convert"} => ToolCanExit(pc, 0)
    /\ Succeeded("bundle.hdiutil-convert") => files = BuiltFiles

C15_Witness ==
    /\ pc = After("bundle.codesign")
    /\ Succeeded("bundle.codesign")
    /\ files_before = [stage |-> "stale", dmg |-> "stale", dmg_writable |-> "stale"]
    /\ files = BuiltFiles

\* C21: for n measured 512-byte blocks get_image_size returns
\* floor(n * 512 / 1000000) + 1, which is at least 1, and that many
\* megabytes of 10^6 bytes are strictly more than the n * 512 bytes measured.
C21_ImageSizeAboveContent ==
    pc = "bundle.hdiutil-resize" =>
        /\ image_size = ((du_blocks * 512) \div 1000000) + 1
        /\ image_size >= 1
        /\ image_size * 1000000 > du_blocks * 512

C21_Witness ==
    /\ pc = "bundle.hdiutil-resize"
    /\ image_size = 2
    /\ GetImageSize(du_blocks - 1) = 1

\* The run has ended: main returned an exit code after its finally clause
Terminated ==
    /\ pc = "done"
    /\ rc \in ExitCodes
    /\ deleteCalls["main.finally"] = 1
    /\ rc = 0 <=> exc = NoExc

\* A measure of how far the run has gone: the place of pc in the program,
\* within a `for binary in ...` loop the iteration, and the attempts the
\* call in progress has made
PlaceOrder == PipelineOrder \o <<"main.else", "main.except", "main.finally", "done">>
PlaceOf == [ p \in { PlaceOrder[k] : k \in 1..Len(PlaceOrder) } |->
               CHOOSE k \in 1..Len(PlaceOrder) : PlaceOrder[k] = p ]
RankWidth == 8 * (MaxBinaries + 1)
Rank ==
    LET tried == Len(Attempts(pc))
    IN  IF pc = "codesign_binary" THEN PlaceOf[pc] * RankWidth + 8 * (i - 1) + tried
        ELSE IF pc = "validate.codesign-verify"
        THEN PlaceOf[pc] * RankWidth + 8 * (i - 1) + tried
        ELSE IF pc = "validate.codesign-display"
        THEN PlaceOf["validate.codesign-verify"] * RankWidth + 8 * (i - 1) + 4 + tried
        ELSE PlaceOf[pc] * RankWidth + tried

\* Every step of the run is an invocation or a Python step that moves the
\* run forward
Progresses == Rank' > Rank

\* C22: when every tool invocation returns, every run of main ends with an
\* exit code, completed or failed, after its teardown: a run that has not
\* ended can take a step, every step moves it forward in a measure that is
\* bounded, and no call makes more than 3 attempts.
C22_RunTerminates ==
    /\ [](pc # "done" => ENABLED Next)
    /\ [](pc = "done" => Terminated)
    /\ [](Len(call.results) <= 3 /\ Rank <= (Len(PlaceOrder) + 1) * RankWidth)
    /\ [][Progresses]_vars

C22_Witness ==
    /\ Terminated
    /\ exc.type = "NotaryToolInternalServerError"
    /\ exc.attempt = 3

\* The hdiutil detach of the attach_disk_image block whose attach is p
DetachOf(p) == IF p = "bundle.attach" THEN "bundle.detach" ELSE "validate.detach"

\* C23: when hdiutil attach has exited non-zero on all its attempts, main
\* returns the exit code of hdiutil attach, and no detach has been
\* attempted for the image that was never mounted.
C23_AttachFailureMirrored ==
    pc = "main.finally" /\ call.site \in AttachSites /\ call.status = "raised" =>
        /\ rc = LastExitCode
        /\ DetachOf(call.site) \notin invoked
        /\ ~mounted

\* Some other run's `security delete-keychain` has exited 0 while run r was
\* between the creation of its keychain and its end
Raced(r) == run[r].interfered

\* C24: concurrent runs use one keychain path, so they race: while a run
\* is between its setup and its teardown, the keychain at its path is its
\* own exactly as long as no other run's setup or teardown has deleted the
\* keychain there; once one has, the run finds, and signs or notarizes
\* against, a keychain that is missing or that another run created.
C24_ConcurrentRunsRace ==
    \A r \in Runs :
        /\ \A q \in Runs : PathOf(q) = PathOf(r)
        /\ InWindow(r) => (KeychainSeenBy(r) = "own" <=> ~Raced(r))
        /\ run[r].used \in {"missing", "other"} => Raced(r)
        /\ run[r].used # "none" => run[r].created

C24_Witness ==
    \E r \in Runs :
        /\ run[r].used = "other"
        /\ run[r].pc = "notarize_bundle.submit"
        /\ KeychainSeenBy(r) = "missing"

\* The lines of a stdout that, stripped of surrounding whitespace, begin
\* with "id: "
IdLines(lines) == { k \in 1..Len(lines) : StartsWith(Strip(lines[k]), IdPrefix) }

\* The value of the last such line
LastId(lines) ==
    LET k == CHOOSE m \in IdLines(lines) : \A n \in IdLines(lines) : n <= m
    IN  SubSeq(Strip(lines[k]), Len(IdPrefix) + 1, Len(Strip(lines[k])))

\* C25: the identifier passed to notarytool log is the value of the last
\* `id: ` line of the stdout of the submit attempt that exited 0 in this
\* run, every earlier attempt of submit having exited non-zero and its
\* stdout having been discarded; the identifier is never empty.
C25_LogIdFromSuccessfulSubmit ==
    /\ (pc \in {"notarize_bundle.parse_id", "notarize_bundle.log"}
          /\ call.site = "notarize_bundle.submit")
         => /\ call.status = "returned"
            /\ call.results[Len(call.results)].returncode = 0
            /\ \A k \in 1..(Len(call.results) - 1) : call.results[k].returncode # 0
            /\ returned["notarize_bundle.submit"] = call.results[Len(call.results)].stdout
            /\ pc = "notarize_bundle.log"
                 => /\ IdLines(returned["notarize_bundle.submit"]) # {}
                    /\ notarization_request = LastId(returned["notarize_bundle.submit"])
    /\ "notarize_bundle.log" \in invoked
         => /\ IdLines(returned["notarize_bundle.submit"]) # {}
            /\ logRequest = LastId(returned["notarize_bundle.submit"])
            /\ logRequest = notarization_request
            /\ Len(logRequest) >= 1
            /\ logRequest # None
    /\ "notarize_bundle.log" \notin invoked => logRequest = None

C25_Witness ==
    /\ call.site = "notarize_bundle.log"
    /\ Len(call.results) = 2
    /\ returned["notarize_bundle.submit"] = <<LineIdA, LineIdB>>
    /\ logRequest = <<"b">>

\* Call site p has exited 0 in this run
SucceededOnce(p) == \E k \in 1..MaxBinaries : <<p, k>> \in succeeded

\* main() is inside the attach_disk_image block opened at attach site a:
\* in its body or at the detach of its finally clause
InBlock(a) == PlaceOf[pc] > PlaceOf[a] /\ PlaceOf[pc] <= PlaceOf[DetachOf(a)]

\* The body sites of the block opened at attach site a
BodyOf(a) == { p \in PipelineSteps : Pos(p) > Pos(a) /\ Pos(p) < Pos(DetachOf(a)) }

\* C26: once hdiutil attach has exited 0, main() does not leave the
\* attach_disk_image block without running hdiutil detach, whether the
\* body completed or raised; outside the blocks the image is mounted only
\* when that detach command itself failed.
C26_AttachIsFollowedByDetach ==
    /\ \A a \in AttachSites :
          SucceededOnce(a) /\ ~InBlock(a) =>
              /\ DetachOf(a) \in invoked
              /\ exc # NoExc /\ exc.site \in BodyOf(a) =>
                    SucceededOnce(DetachOf(a)) /\ ~mounted
              /\ ~SucceededOnce(DetachOf(a)) =>
                    exc.type = "CalledProcessError" /\ exc.site = DetachOf(a)
    /\ mounted /\ (\A a \in AttachSites : ~InBlock(a)) =>
          /\ exc.type = "CalledProcessError"
          /\ exc.site \in DetachSites
          /\ ~SucceededOnce(exc.site)
    /\ \A a \in AttachSites : pc \in BodyOf(a) => mounted /\ SucceededOnce(a)

C26_Witness ==
    /\ pc = "done"
    /\ exc.site = "setup_dmg_icon"
    /\ SucceededOnce("bundle.attach")
    /\ SucceededOnce("bundle.detach")
    /\ ~mounted

\* The gpg commands run so far by gpg_sign.py, in order
GpgSites == [k \in 1..Len(gpg.commands) |-> gpg.commands[k].site]

\* C27: gpg_sign.py emits the `signature` output only after gpg
\* --detach-sign and then gpg --verify have each been run once and exited
\* zero; a gpg command that exits non-zero is not run again, ends the run
\* with no output and with that exit code as main's return value; more
\* than one artifact, or an artifact that is not a regular file, makes
\* main return 1 with no gpg command run.
C27_GpgSignFlow ==
    /\ GpgSites \in { <<>>, <<"gpg_sign_artifact">>, <<"gpg_sign_artifact", "validate">> }
    /\ Len(gpg.commands) = 2 => gpg.commands[1].returncode = 0
    /\ gpg.outputs # {} =>
          /\ gpg.outputs = {"signature"}
          /\ Len(gpg.commands) = 2
          /\ \A k \in 1..2 : gpg.commands[k].returncode = 0
          /\ gpg.asc = "written"
          /\ gpg.pc = "done" /\ gpg.rc = 0
    /\ \A k \in 1..Len(gpg.commands) :
          gpg.commands[k].returncode # 0 =>
              /\ k = Len(gpg.commands)
              /\ gpg.pc = "done"
              /\ gpg.rc = gpg.commands[k].returncode
              /\ gpg.outputs = {}
    /\ (gpg.pc = "done" /\ (Len(gpg.artifact) > 1 \/ gpg.artifact[1] # "file")) =>
          /\ gpg.rc = 1
          /\ gpg.commands = <<>>
          /\ gpg.outputs = {}
    /\ gpg.pc = "done" => (gpg.rc = 0 <=> gpg.outputs = {"signature"})

C27_Witness ==
    /\ gpg.pc = "done"
    /\ gpg.commands = << [site |-> "gpg_sign_artifact", returncode |-> 0],
                         [site |-> "validate", returncode |-> 2] >>
    /\ gpg.rc = 2
    /\ gpg.outputs = {}

====
